---- MODULE Spec2Model ----
\* Car-rental service (src/index.js, src/lib/utils.js): the rental lifecycle on
\* the two backends, the in-memory arrays and the MySQL tables.
\*
\* Conventions of the model
\*   - a date string 'YYYY-MM-DD' is the tuple <<y, m, d>>; the Date object that
\*     mysql2 returns for a DATE column is the tuple <<y, m, d, 0>> (midnight);
\*     the empty tuple is an absent/empty field; any other tuple is text that
\*     does not parse ('invalid');
\*   - time is counted in hours since 1970-01-01T00:00Z, the server runs in UTC;
\*   - money is counted in cents ('35.00' is 3500);
\*   - a URL parameter is a string: Str(n) is the decimal text of n.
EXTENDS Integers, Sequences, FiniteSets, TLC

\* ---------------------------------------------------------------- bounds
MaxRequests == 4
MaxNow == 1
MaxProcs == 2

\* ---------------------------------------------------------------- inputs
Missing == << >>
DateInputs == { Missing, <<2025, 1, 1>>, <<2025, 1, 3>>, <<2025, 13, 1>> }
NameInputs == { "", "Alice" }
CarIdInputs == { 0, 1, 2, 999 }
StatusInputs == { "", "ongoing", "returned", "cancelled", "lost" }
RentalIdInputs == { 1, 2, 3 }
ProcIds == 1 .. MaxProcs

\* Str(n) is the decimal text of n as it arrives in req.params; Number reads it
\* back. A car_id of a JSON body is a number already and Number leaves it alone.
Str(n) == [str |-> n]
Number(s) == s.str

\* ---------------------------------------------------------------- dates
msPerDay == 24

\* Day number of a civil date (days since 1970-01-01), as Date computes it; a
\* day past the end of its month rolls over into the next month.
MakeDay(y, m, d) ==
  LET yy  == IF m <= 2 THEN y - 1 ELSE y
      era == yy \div 400
      yoe == yy - era * 400
      mp  == (m + 9) % 12
      doy == (153 * mp + 2) \div 5 + d - 1
      doe == yoe * 365 + yoe \div 4 - yoe \div 100 + doy
  IN  era * 146097 + doe - 719468

\* new Date(s): [nan |-> TRUE] is an Invalid Date, else the time value.
NewDate(s) ==
  IF /\ Len(s) \in {3, 4}
     /\ s[1] \in 1970 .. 2100
     /\ s[2] \in 1 .. 12
     /\ s[3] \in 1 .. 31
     /\ (Len(s) = 4 => s[4] \in 0 .. 23)
  THEN [nan |-> FALSE,
        time |-> MakeDay(s[1], s[2], s[3]) * msPerDay + (IF Len(s) = 4 THEN s[4] ELSE 0)]
  ELSE [nan |-> TRUE, time |-> 0]

Ceil(a, b) == (a + b - 1) \div b
Max(a, b) == IF a >= b THEN a ELSE b

\* Mutant: a range of one day counts as no range.
daysInclusive_SameDayIsZero(startDate, endDate) ==
  LET start == NewDate(startDate)
      end   == NewDate(endDate)
  IN  IF start.nan \/ end.nan THEN 0
      ELSE IF end.time <= start.time THEN 0
      ELSE Max(1, Ceil(end.time - start.time, msPerDay) + 1)

\* Mutant: the last day is not counted.
daysInclusive_Exclusive(startDate, endDate) ==
  LET start == NewDate(startDate)
      end   == NewDate(endDate)
  IN  IF start.nan \/ end.nan THEN 0
      ELSE IF end.time < start.time THEN 0
      ELSE Max(1, Ceil(end.time - start.time, msPerDay))

daysInclusive(startDate, endDate) ==
  LET start == NewDate(startDate)
      end   == NewDate(endDate)
  IN  IF start.nan \/ end.nan THEN 0
      ELSE IF end.time < start.time THEN 0
      ELSE Max(1, Ceil(end.time - start.time, msPerDay) + 1)

\* ---------------------------------------------------------------- stores
SeedCars ==
  << [id |-> 1, make |-> "Toyota", model |-> "Corolla", year |-> 2020, daily_rate |-> 3500, available |-> 1],
     [id |-> 2, make |-> "Honda",  model |-> "Civic",   year |-> 2019, daily_rate |-> 3750, available |-> 1],
     [id |-> 3, make |-> "Ford",   model |-> "Focus",   year |-> 2018, daily_rate |-> 3000, available |-> 1] >>

\* Array.prototype.findIndex over the id field, 1-based; 0 when nothing matches.
FindIndex(rows, id) ==
  IF \E i \in 1 .. Len(rows) : rows[i].id = id
  THEN CHOOSE i \in 1 .. Len(rows) :
         /\ rows[i].id = id
         /\ \A j \in 1 .. (i - 1) : rows[j].id # id
  ELSE 0

RECURSIVE MaxId(_)
MaxId(rows) ==
  IF rows = << >> THEN 0 ELSE Max(Head(rows).id, MaxId(Tail(rows)))

\* Array.prototype.splice(idx, 1)
Splice(rows, idx) ==
  [i \in 1 .. (Len(rows) - 1) |-> IF i < idx THEN rows[i] ELSE rows[i + 1]]

StatusEnum == { "ongoing", "returned", "cancelled" }

VARIABLES
  phase,            \* "boot" until startServer has run initDB, then "up"
  useInMemory,
  inMemoryCars,
  inMemoryRentals,
  db,               \* the MySQL tables: [cars, rentals, autoInc]
  metrics,
  now,              \* the clock that stamps created_at / updated_at
  procs,            \* durable handlers suspended at an await
  last              \* the response sent last

vars == << phase, useInMemory, inMemoryCars, inMemoryRentals, db, metrics, now, procs, last >>

Response(status, body) == [status |-> status, body |-> body]
Error(status, text) == Response(status, [error |-> text])
NoResponse == Response(0, [error |-> ""])

\* Mutant: a request is counted twice.
Counted_Twice(m) == [m EXCEPT !.requestCount = @ + 2]

\* The request tracking middleware: metrics.requestCount++
Counted(m) == [m EXCEPT !.requestCount = @ + 1]

\* ---------------------------------------------------------------- in-memory handlers
\* Each returns the arrays after the handler and the response it sent. The
\* in-memory branches contain no await: a handler runs to its return in one step.

\* app.post('/api/rentals'), body validation shared by both backends
\* Mutant: a missing end_date is not noticed.
BodyIncomplete_IgnoresEndDate(body) ==
  \/ body.car_id = 0
  \/ body.renter_name = ""
  \/ body.start_date = Missing

BodyIncomplete(body) ==
  \/ body.car_id = 0
  \/ body.renter_name = ""
  \/ body.start_date = Missing
  \/ body.end_date = Missing

RequiredError == Error(400, "car_id, renter_name, start_date and end_date are required")

\* Mutant: the car is marked unavailable before the dates are validated.
PostRentalsMem_MarksBeforeDates(cars, rentals, body, t) ==
  LET ci == FindIndex(cars, body.car_id)
      days == daysInclusive(body.start_date, body.end_date)
      newId == IF Len(rentals) # 0 THEN MaxId(rentals) + 1 ELSE 1
      rental == [id |-> newId, car_id |-> body.car_id, renter_name |-> body.renter_name,
                 start_date |-> body.start_date, end_date |-> body.end_date,
                 total_cost |-> cars[ci].daily_rate * days, status |-> "ongoing",
                 created_at |-> t, updated_at |-> t]
      same == [cars |-> cars, rentals |-> rentals]
  IN  IF ci = 0 THEN same @@ [res |-> Error(404, "Car not found")]
      ELSE IF cars[ci].available = 0
        THEN same @@ [res |-> Error(400, "Car is not available for rental")]
      ELSE IF days = 0
        THEN [cars |-> [cars EXCEPT ![ci].available = 0], rentals |-> rentals,
              res |-> Error(400, "Invalid dates")]
      ELSE [cars |-> [cars EXCEPT ![ci].available = 0],
            rentals |-> Append(rentals, rental),
            res |-> Response(201, rental @@ [message |-> "Rental created (in-memory)"])]

PostRentalsMem(cars, rentals, body, t) ==
  LET ci == FindIndex(cars, body.car_id)
      days == daysInclusive(body.start_date, body.end_date)
      newId == IF Len(rentals) # 0 THEN MaxId(rentals) + 1 ELSE 1
      rental == [id |-> newId, car_id |-> body.car_id, renter_name |-> body.renter_name,
                 start_date |-> body.start_date, end_date |-> body.end_date,
                 total_cost |-> cars[ci].daily_rate * days, status |-> "ongoing",
                 created_at |-> t, updated_at |-> t]
      same == [cars |-> cars, rentals |-> rentals]
  IN  IF ci = 0 THEN same @@ [res |-> Error(404, "Car not found")]
      ELSE IF cars[ci].available = 0
        THEN same @@ [res |-> Error(400, "Car is not available for rental")]
      ELSE IF days = 0 THEN same @@ [res |-> Error(400, "Invalid dates")]
      ELSE [cars |-> [cars EXCEPT ![ci].available = 0],
            rentals |-> Append(rentals, rental),
            res |-> Response(201, rental @@ [message |-> "Rental created (in-memory)"])]

\* Mutant: cancelling a rental releases its car as returning it does.
PutRentalsMem_CancelReleases(cars, rentals, id, body, t) ==
  LET ri == FindIndex(rentals, Number(id))
      rental == rentals[ri]
      ci == FindIndex(cars, rental.car_id)
      days == daysInclusive(rental.start_date, body.end_date)
      r1 == IF body.end_date # Missing
            THEN [rental EXCEPT !.end_date = body.end_date,
                                !.total_cost = cars[ci].daily_rate * days]
            ELSE rental
      r2 == IF body.status # "" THEN [r1 EXCEPT !.status = body.status] ELSE r1
      r3 == [r2 EXCEPT !.updated_at = t]
      cars2 == IF body.status \in { "returned", "cancelled" } /\ ci # 0
               THEN [cars EXCEPT ![ci].available = 1] ELSE cars
      same == [cars |-> cars, rentals |-> rentals]
  IN  IF ri = 0 THEN same @@ [res |-> Error(404, "Rental not found")]
      ELSE IF body.end_date # Missing /\ days = 0
        THEN same @@ [res |-> Error(400, "Invalid end_date")]
      ELSE [cars |-> cars2,
            rentals |-> [rentals EXCEPT ![ri] = r3],
            res |-> Response(200, [message |-> "Rental updated (in-memory)", id |-> r3.id,
                                   status |-> r3.status, end_date |-> r3.end_date,
                                   total_cost |-> r3.total_cost])]

PutRentalsMem(cars, rentals, id, body, t) ==
  LET ri == FindIndex(rentals, Number(id))
      rental == rentals[ri]
      ci == FindIndex(cars, rental.car_id)
      days == daysInclusive(rental.start_date, body.end_date)
      r1 == IF body.end_date # Missing
            THEN [rental EXCEPT !.end_date = body.end_date,
                                !.total_cost = cars[ci].daily_rate * days]
            ELSE rental
      r2 == IF body.status # "" THEN [r1 EXCEPT !.status = body.status] ELSE r1
      r3 == [r2 EXCEPT !.updated_at = t]
      cars2 == IF body.status = "returned" /\ ci # 0
               THEN [cars EXCEPT ![ci].available = 1] ELSE cars
      same == [cars |-> cars, rentals |-> rentals]
  IN  IF ri = 0 THEN same @@ [res |-> Error(404, "Rental not found")]
      ELSE IF body.end_date # Missing /\ days = 0
        THEN same @@ [res |-> Error(400, "Invalid end_date")]
      ELSE [cars |-> cars2,
            rentals |-> [rentals EXCEPT ![ri] = r3],
            res |-> Response(200, [message |-> "Rental updated (in-memory)", id |-> r3.id,
                                   status |-> r3.status, end_date |-> r3.end_date,
                                   total_cost |-> r3.total_cost])]

\* Mutant: deleting a rental frees its car.
DeleteRentalsMem_FreesCar(cars, rentals, id) ==
  LET idx == FindIndex(rentals, Number(id))
  IN  IF idx = 0
      THEN [cars |-> cars, rentals |-> rentals, res |-> Error(404, "Rental not found")]
      ELSE [cars |-> [cars EXCEPT ![FindIndex(cars, rentals[idx].car_id)].available = 1],
            rentals |-> Splice(rentals, idx),
            res |-> Response(200, [message |-> "Rental deleted (in-memory)"])]

\* Mutant: a Delete of an unknown id is answered as a deletion.
DeleteRentalsMem_UnknownDeleted(cars, rentals, id) ==
  LET idx == FindIndex(rentals, Number(id))
  IN  IF idx = 0
      THEN [cars |-> cars, rentals |-> rentals,
            res |-> Response(200, [message |-> "Rental deleted (in-memory)"])]
      ELSE [cars |-> cars, rentals |-> Splice(rentals, idx),
            res |-> Response(200, [message |-> "Rental deleted (in-memory)"])]

DeleteRentalsMem(cars, rentals, id) ==
  LET idx == FindIndex(rentals, Number(id))
  IN  IF idx = 0
      THEN [cars |-> cars, rentals |-> rentals, res |-> Error(404, "Rental not found")]
      ELSE [cars |-> cars, rentals |-> Splice(rentals, idx),
            res |-> Response(200, [message |-> "Rental deleted (in-memory)"])]

\* rows.sort((a, b) => new Date(b.created_at) - new Date(a.created_at)):
\* newest first; the sort is stable, rows of one created_at keep their order.
RECURSIVE SortCreatedDesc(_)
SortCreatedDesc(rows) ==
  IF rows = << >> THEN << >>
  ELSE LET i == CHOOSE i \in 1 .. Len(rows) :
                  /\ \A j \in 1 .. Len(rows) : rows[j].created_at <= rows[i].created_at
                  /\ \A j \in 1 .. (i - 1) : rows[j].created_at < rows[i].created_at
       IN  << rows[i] >> \o SortCreatedDesc(Splice(rows, i))

\* Mutant: every row is joined with the first car.
JoinCar_FirstCar(r, cars) ==
  LET car == cars[1]
  IN  r @@ [make |-> car.make, model |-> car.model, year |-> car.year,
            daily_rate |-> car.daily_rate]

\* { ...r, make: car.make, model: car.model, year: car.year, daily_rate:
\* car.daily_rate } and the JOIN cars c ON r.car_id = c.id. No car is ever
\* removed, so the car of a stored rental is found.
JoinCar(r, cars) ==
  LET car == cars[FindIndex(cars, r.car_id)]
  IN  r @@ [make |-> car.make, model |-> car.model, year |-> car.year,
            daily_rate |-> car.daily_rate]

\* app.get('/api/rentals'), in-memory branch; the JSON array is the field rows.
GetRentalsMem(cars, rentals) ==
  LET sorted == SortCreatedDesc(rentals)
  IN  Response(200, [rows |-> [i \in 1 .. Len(sorted) |-> JoinCar(sorted[i], cars)]])

\* Sum of total_cost over the rows whose status is in the set given.
RECURSIVE SumCost(_, _)
SumCost(rows, statuses) ==
  IF rows = << >> THEN 0
  ELSE (IF Head(rows).status \in statuses THEN Head(rows).total_cost ELSE 0)
       + SumCost(Tail(rows), statuses)

CountStatus(rows, statuses) ==
  Cardinality({ i \in 1 .. Len(rows) : rows[i].status \in statuses })

RECURSIVE SumAll(_)
SumAll(rows) ==
  IF rows = << >> THEN 0 ELSE Head(rows).total_cost + SumAll(Tail(rows))

\* Mutant: a cancelled rental is counted as active.
UpdateMetricsMem_CancelledActive(m, rentals) ==
  [m EXCEPT !.totalRentals = Len(rentals),
            !.activeRentals = CountStatus(rentals, { "ongoing", "cancelled" }),
            !.totalRevenue = SumAll(rentals)]

\* updateMetrics, in-memory branch
UpdateMetricsMem(m, rentals) ==
  [m EXCEPT !.totalRentals = Len(rentals),
            !.activeRentals = CountStatus(rentals, { "ongoing" }),
            !.totalRevenue = SumAll(rentals)]

\* app.get('/metrics'): the body built from the metrics object (uptime and
\* timestamp, which only read the wall clock, are left out).
SnapshotBody(m) ==
  [status |-> "healthy",
   rentals |-> [total |-> m.totalRentals, active |-> m.activeRentals,
                completed |-> m.totalRentals - m.activeRentals],
   revenue |-> [total |-> m.totalRevenue, currency |-> "USD"],
   requests |-> [total |-> m.requestCount]]

\* ---------------------------------------------------------------- durable handlers
\* A durable handler is suspended at every await db.execute(...). Its process
\* record keeps the handler's locals; pc names the statement it is waiting for.
\* DbStep executes that statement and runs the handler up to its next await.

\* A DATE column is read as a Date object and written from a string or a Date.
DateObject(d) == << d[1], d[2], d[3], 0 >>
DateColumn(v) == << v[1], v[2], v[3] >>
RowOut(r) == [r EXCEPT !.start_date = DateObject(@), !.end_date = DateObject(@)]

NoCar == [id |-> 0, make |-> "", model |-> "", year |-> 0, daily_rate |-> 0, available |-> 0]
NoRental == [id |-> 0, car_id |-> 0, renter_name |-> "", start_date |-> Missing,
             end_date |-> Missing, total_cost |-> 0, status |-> "",
             created_at |-> 0, updated_at |-> 0]
NoBody == [car_id |-> 0, renter_name |-> "", start_date |-> Missing, end_date |-> Missing,
           status |-> ""]
Idle == [op |-> "none", id |-> Str(0), body |-> NoBody, pc |-> "idle", car |-> NoCar,
         rental |-> NoRental, total_cost |-> 0, insertId |-> 0, res |-> NoResponse,
         cnt |-> 0, active |-> 0, total |-> 0]

Done(p, res) == [p EXCEPT !.pc = "done", !.res = res]

\* Mutant: the dates are validated before the car's availability.
SelectCar_DatesFirst(d, p) ==
  LET ci == FindIndex(d.cars, p.body.car_id)
      car == d.cars[ci]
      start == NewDate(p.body.start_date)
      end == NewDate(p.body.end_date)
      days == Ceil(end.time - start.time, msPerDay) + 1
  IN  IF ci = 0 THEN Done(p, Error(404, "Car not found"))
      ELSE IF start.nan \/ end.nan \/ end.time < start.time
        THEN Done(p, Error(400, "Invalid dates"))
      ELSE IF car.available = 0 THEN Done(p, Error(400, "Car is not available for rental"))
      ELSE [p EXCEPT !.car = car, !.total_cost = car.daily_rate * days, !.pc = "insertRental"]

\* app.post('/api/rentals'): SELECT * FROM cars WHERE id = ? FOR UPDATE
SelectCar(d, p) ==
  LET ci == FindIndex(d.cars, p.body.car_id)
      car == d.cars[ci]
      start == NewDate(p.body.start_date)
      end == NewDate(p.body.end_date)
      days == Ceil(end.time - start.time, msPerDay) + 1
  IN  IF ci = 0 THEN Done(p, Error(404, "Car not found"))
      ELSE IF car.available = 0 THEN Done(p, Error(400, "Car is not available for rental"))
      ELSE IF start.nan \/ end.nan \/ end.time < start.time
        THEN Done(p, Error(400, "Invalid dates"))
      ELSE [p EXCEPT !.car = car, !.total_cost = car.daily_rate * days, !.pc = "insertRental"]

\* INSERT INTO rentals (car_id, renter_name, start_date, end_date, total_cost)
InsertRental(d, p, t) ==
  [id |-> d.autoInc, car_id |-> p.body.car_id, renter_name |-> p.body.renter_name,
   start_date |-> DateColumn(p.body.start_date), end_date |-> DateColumn(p.body.end_date),
   total_cost |-> p.total_cost, status |-> "ongoing", created_at |-> t, updated_at |-> t]

\* Mutant: the UPDATE has no WHERE clause.
SetAvailable_EveryCar(cars, id, v) ==
  [i \in 1 .. Len(cars) |-> [cars[i] EXCEPT !.available = v]]

\* UPDATE cars SET available = ? WHERE id = ?
SetAvailable(cars, id, v) ==
  [i \in 1 .. Len(cars) |-> IF cars[i].id = id THEN [cars[i] EXCEPT !.available = v] ELSE cars[i]]

\* Mutant: the cost of one day is returned whatever the range.
CreatedBody_OneDay(p) ==
  [id |-> p.insertId, car_id |-> p.body.car_id, renter_name |-> p.body.renter_name,
   start_date |-> p.body.start_date, end_date |-> p.body.end_date,
   total_cost |-> p.car.daily_rate, message |-> "Rental created"]

CreatedBody(p) ==
  [id |-> p.insertId, car_id |-> p.body.car_id, renter_name |-> p.body.renter_name,
   start_date |-> p.body.start_date, end_date |-> p.body.end_date,
   total_cost |-> p.total_cost, message |-> "Rental created"]

\* app.put('/api/rentals/:id'): SELECT * FROM rentals WHERE id = ?
SelectRental(d, p) ==
  LET ri == FindIndex(d.rentals, Number(p.id))
      rental == RowOut(d.rentals[ri])
  IN  IF ri = 0 THEN Done(p, Error(404, "Rental not found"))
      ELSE [p EXCEPT !.rental = rental, !.total_cost = rental.total_cost,
                     !.pc = IF p.body.end_date # Missing THEN "selectRate" ELSE "updateRental"]

\* Mutant: an end_date before the start of the rental is accepted.
SelectRate_AcceptsReversed(d, p) ==
  LET car == d.cars[FindIndex(d.cars, p.rental.car_id)]
      start == NewDate(p.rental.start_date)
      end == NewDate(p.body.end_date)
      days == Ceil(end.time - start.time, msPerDay) + 1
  IN  IF end.nan THEN Done(p, Error(400, "Invalid end_date"))
      ELSE [p EXCEPT !.car = car, !.total_cost = car.daily_rate * days, !.pc = "updateRental"]

\* SELECT daily_rate FROM cars WHERE id = ?, then the recomputation of the total
SelectRate(d, p) ==
  LET car == d.cars[FindIndex(d.cars, p.rental.car_id)]
      start == NewDate(p.rental.start_date)
      end == NewDate(p.body.end_date)
      days == Ceil(end.time - start.time, msPerDay) + 1
  IN  IF end.nan \/ end.time < start.time THEN Done(p, Error(400, "Invalid end_date"))
      ELSE [p EXCEPT !.car = car, !.total_cost = car.daily_rate * days, !.pc = "updateRental"]

Or(a, b, absent) == IF a # absent THEN a ELSE b

\* Mutant: the UPDATE writes the new end_date but not the recomputed total.
UpdateRentalRow_KeepsCost(r, p, t) ==
  LET r1 == [r EXCEPT !.end_date = DateColumn(Or(p.body.end_date, p.rental.end_date, Missing)),
                      !.status = Or(p.body.status, p.rental.status, "")]
  IN  IF r1 = r THEN r ELSE [r1 EXCEPT !.updated_at = t]

\* Mutant: a status the request does not name is written as 'ongoing'.
UpdateRentalRow_StatusDefaults(r, p, t) ==
  LET r1 == [r EXCEPT !.end_date = DateColumn(Or(p.body.end_date, p.rental.end_date, Missing)),
                      !.total_cost = p.total_cost,
                      !.status = Or(p.body.status, "ongoing", "")]
  IN  IF r1 = r THEN r ELSE [r1 EXCEPT !.updated_at = t]

\* UPDATE rentals SET end_date = ?, total_cost = ?, status = ? WHERE id = ?
\* updated_at is ON UPDATE CURRENT_TIMESTAMP: stamped when the row changes.
UpdateRentalRow(r, p, t) ==
  LET r1 == [r EXCEPT !.end_date = DateColumn(Or(p.body.end_date, p.rental.end_date, Missing)),
                      !.total_cost = p.total_cost,
                      !.status = Or(p.body.status, p.rental.status, "")]
  IN  IF r1 = r THEN r ELSE [r1 EXCEPT !.updated_at = t]

UpdatedBody(p) ==
  [message |-> "Rental updated", id |-> p.id,
   status |-> Or(p.body.status, p.rental.status, ""),
   end_date |-> Or(p.body.end_date, p.rental.end_date, Missing),
   total_cost |-> p.total_cost]

DbStep(d, p, t) ==
  CASE p.pc = "selectCar" -> [db |-> d, p |-> SelectCar(d, p)]
    [] p.pc = "insertRental" ->
         [db |-> [d EXCEPT !.rentals = Append(@, InsertRental(d, p, t)), !.autoInc = @ + 1],
          p |-> [p EXCEPT !.insertId = d.autoInc, !.pc = "markUnavailable"]]
    [] p.pc = "markUnavailable" ->
         [db |-> [d EXCEPT !.cars = SetAvailable(@, p.body.car_id, 0)],
          p |-> Done(p, Response(201, CreatedBody(p)))]
    [] p.pc = "selectRental" -> [db |-> d, p |-> SelectRental(d, p)]
    [] p.pc = "selectRate" -> [db |-> d, p |-> SelectRate(d, p)]
    [] p.pc = "updateRental" ->
         IF Or(p.body.status, p.rental.status, "") \notin StatusEnum
         THEN [db |-> d, p |-> Done(p, Error(500, "Failed to update rental"))]
         ELSE [db |-> [d EXCEPT !.rentals =
                         [i \in 1 .. Len(@) |->
                            IF @[i].id = Number(p.id) THEN UpdateRentalRow(@[i], p, t) ELSE @[i]]],
               p |-> IF p.body.status = "returned"
                     THEN [p EXCEPT !.pc = "markAvailable"]
                     ELSE Done(p, Response(200, UpdatedBody(p)))]
    [] p.pc = "markAvailable" ->
         [db |-> [d EXCEPT !.cars = SetAvailable(@, p.rental.car_id, 1)],
          p |-> Done(p, Response(200, UpdatedBody(p)))]
    [] p.pc = "countRentals" ->
         [db |-> d, p |-> [p EXCEPT !.cnt = Len(d.rentals), !.pc = "countActive"]]
    [] p.pc = "countActive" ->
         [db |-> d, p |-> [p EXCEPT !.active = CountStatus(d.rentals, { "ongoing" }),
                                    !.pc = "sumRevenue"]]
    [] p.pc = "sumRevenue" ->
         [db |-> d, p |-> [p EXCEPT !.total = SumCost(d.rentals, { "ongoing", "returned" }),
                                    !.pc = "done"]]
    [] p.pc = "deleteRental" ->
         LET idx == FindIndex(d.rentals, Number(p.id))
         IN  IF idx = 0
             THEN [db |-> d, p |-> Done(p, Error(404, "Rental not found"))]
             ELSE [db |-> [d EXCEPT !.rentals = Splice(@, idx)],
                   p |-> Done(p, Response(200, [message |-> "Rental deleted"]))]

\* The handler from the arrival of the request to its first await.
Begin(req) ==
  LET p == [Idle EXCEPT !.op = req.op, !.id = req.id, !.body = req.body]
  IN  CASE req.op = "create" ->
             IF BodyIncomplete(req.body) THEN Done(p, RequiredError)
             ELSE [p EXCEPT !.pc = "selectCar"]
        [] req.op = "update" -> [p EXCEPT !.pc = "selectRental"]
        [] req.op = "delete" -> [p EXCEPT !.pc = "deleteRental"]
        [] req.op = "metrics" -> [p EXCEPT !.pc = "countRentals"]

\* SELECT r.*, c.make, c.model, c.year, c.daily_rate FROM rentals r JOIN cars c
\* ... ORDER BY r.created_at DESC: every order of the rows that is descending
\* in created_at; SQL leaves the order of rows of one created_at open.
SelectRentalsJoined(d) ==
  LET n == Len(d.rentals)
      orders == { f \in Permutations(1 .. n) :
                    \A i \in 1 .. (n - 1) :
                      d.rentals[f[i]].created_at >= d.rentals[f[i + 1]].created_at }
  IN  { [i \in 1 .. n |-> JoinCar(RowOut(d.rentals[f[i]]), d.cars)] : f \in orders }

\* updateMetrics, durable branch: the assignments after the three queries
MetricsWritten(m, p) ==
  [m EXCEPT !.totalRentals = p.cnt, !.activeRentals = p.active, !.totalRevenue = p.total]

\* A durable handler that no other handler interleaves with.
RECURSIVE RunDb(_, _, _)
RunDb(d, p, t) ==
  IF p.pc = "done" THEN [db |-> d, p |-> p]
  ELSE LET r == DbStep(d, p, t) IN RunDb(r.db, r.p, t)

\* ---------------------------------------------------------------- requests
Request(op, id, body) == [op |-> op, id |-> id, body |-> body]

\* Every complete body over the inputs, one body per missing field, and the
\* empty body.
CompleteBodies ==
  { [NoBody EXCEPT !.car_id = c, !.renter_name = n, !.start_date = s, !.end_date = e] :
      c \in CarIdInputs \ {0}, n \in NameInputs \ {""},
      s \in DateInputs \ {Missing}, e \in DateInputs \ {Missing} }

BaseBody ==
  [NoBody EXCEPT !.car_id = 1, !.renter_name = "Alice",
                 !.start_date = <<2025, 1, 1>>, !.end_date = <<2025, 1, 3>>]

IncompleteBodies ==
  { [BaseBody EXCEPT !.car_id = 0], [BaseBody EXCEPT !.renter_name = ""],
    [BaseBody EXCEPT !.start_date = Missing], [BaseBody EXCEPT !.end_date = Missing],
    NoBody }

CreateBodies == CompleteBodies \cup IncompleteBodies

UpdateBodies ==
  { [NoBody EXCEPT !.status = st, !.end_date = e] : st \in StatusInputs, e \in DateInputs }

\* The in-memory branch of the handler of req.
ServeMem(cars, rentals, req, t) ==
  CASE req.op = "create" ->
         IF BodyIncomplete(req.body)
         THEN [cars |-> cars, rentals |-> rentals, res |-> RequiredError]
         ELSE PostRentalsMem(cars, rentals, req.body, t)
    [] req.op = "update" -> PutRentalsMem(cars, rentals, req.id, req.body, t)
    [] req.op = "delete" -> DeleteRentalsMem(cars, rentals, req.id)

\* ---------------------------------------------------------------- startup
Init ==
  /\ phase = "boot"
  /\ useInMemory = FALSE
  /\ inMemoryCars = << >>
  /\ inMemoryRentals = << >>
  /\ db = [cars |-> << >>, rentals |-> << >>, autoInc |-> 1, conn |-> FALSE]
  /\ metrics = [totalRentals |-> 0, activeRentals |-> 0, totalRevenue |-> 0, requestCount |-> 0]
  /\ now = 0
  /\ procs = [p \in ProcIds |-> Idle]
  /\ last = NoResponse

\* initDB, the connection is established: the tables are created and seeded
InitDBConnected ==
  /\ phase = "boot"
  /\ phase' = "up"
  /\ db' = [db EXCEPT !.conn = TRUE, !.cars = IF Len(@) = 0 THEN SeedCars ELSE @]
  /\ UNCHANGED << useInMemory, inMemoryCars, inMemoryRentals, metrics, now, procs, last >>

\* initDB, a statement of the try block throws: createConnection (no
\* connection), or with the connection established one of the CREATE TABLEs,
\* the SELECT COUNT or the seeding INSERT. The catch block falls back to the
\* in-memory arrays.
InitDBFailed ==
  /\ phase = "boot"
  /\ phase' = "up"
  /\ useInMemory' = TRUE
  /\ inMemoryCars' = SeedCars
  /\ \E connected \in BOOLEAN : db' = [db EXCEPT !.conn = connected]
  /\ UNCHANGED << inMemoryRentals, metrics, now, procs, last >>

Tick ==
  /\ now < MaxNow
  /\ now' = now + 1
  /\ UNCHANGED << phase, useInMemory, inMemoryCars, inMemoryRentals, db, metrics, procs, last >>

\* ---------------------------------------------------------------- one request at a time
\* The request-tracking middleware, then the whole handler of req.
Handle(req) ==
  /\ phase = "up"
  /\ metrics.requestCount < MaxRequests
  /\ metrics' = Counted(metrics)
  /\ IF useInMemory
     THEN LET r == ServeMem(inMemoryCars, inMemoryRentals, req, now)
          IN  /\ inMemoryCars' = r.cars
              /\ inMemoryRentals' = r.rentals
              /\ last' = r.res
              /\ UNCHANGED db
     ELSE LET r == RunDb(db, Begin(req), now)
          IN  /\ db' = r.db
              /\ last' = r.p.res
              /\ UNCHANGED << inMemoryCars, inMemoryRentals >>
  /\ UNCHANGED << phase, useInMemory, now, procs >>

PostRentals == \E body \in CreateBodies : Handle(Request("create", Str(0), body))
PutRentals == \E id \in RentalIdInputs, body \in UpdateBodies : Handle(Request("update", Str(id), body))
DeleteRentals == \E id \in RentalIdInputs : Handle(Request("delete", Str(id), NoBody))

\* app.get('/metrics'): the middleware, updateMetrics, then the snapshot
GetMetrics ==
  /\ phase = "up"
  /\ metrics.requestCount < MaxRequests
  /\ LET counted == Counted(metrics)
         updated == IF useInMemory
                    THEN UpdateMetricsMem(counted, inMemoryRentals)
                    ELSE MetricsWritten(counted,
                           RunDb(db, Begin(Request("metrics", Str(0), NoBody)), now).p)
     IN  /\ metrics' = updated
         /\ last' = Response(200, SnapshotBody(updated))
  /\ UNCHANGED << phase, useInMemory, inMemoryCars, inMemoryRentals, db, now, procs >>

Next ==
  \/ InitDBConnected
  \/ InitDBFailed
  \/ PostRentals
  \/ PutRentals
  \/ DeleteRentals

\* Requests served one at a time by a backend that does not fail; the clock stands.
Spec == Init /\ [][Next]_vars

\* app.get('/api/rentals')
GetRentals ==
  /\ phase = "up"
  /\ metrics.requestCount < MaxRequests
  /\ metrics' = Counted(metrics)
  /\ IF useInMemory
     THEN last' = GetRentalsMem(inMemoryCars, inMemoryRentals)
     ELSE \E rows \in SelectRentalsJoined(db) : last' = Response(200, [rows |-> rows])
  /\ UNCHANGED << phase, useInMemory, inMemoryCars, inMemoryRentals, db, now, procs >>

\* The routes of Spec and the metrics route.
NextMetrics == Next \/ GetMetrics
SpecMetrics == Init /\ [][NextMetrics]_vars

\* ---------------------------------------------------------------- every route
\* app.get('/health'); the timestamp only reads the wall clock
GetHealth ==
  /\ phase = "up"
  /\ metrics.requestCount < MaxRequests
  /\ metrics' = Counted(metrics)
  /\ last' = Response(200, [status |-> "OK"])
  /\ UNCHANGED << phase, useInMemory, inMemoryCars, inMemoryRentals, db, now, procs >>

\* app.get('/api/cars'): the array, or SELECT * FROM cars ORDER BY id
GetCars ==
  /\ phase = "up"
  /\ metrics.requestCount < MaxRequests
  /\ metrics' = Counted(metrics)
  /\ last' = Response(200, [rows |-> IF useInMemory THEN inMemoryCars ELSE db.cars])
  /\ UNCHANGED << phase, useInMemory, inMemoryCars, inMemoryRentals, db, now, procs >>

\* Requests answered 201, 200, 400, 404 and (durable, status 'lost') 500.
RoutesCreate ==
  \E body \in { BaseBody, [BaseBody EXCEPT !.car_id = 999], [BaseBody EXCEPT !.renter_name = ""] } :
    Handle(Request("create", Str(0), body))
RoutesUpdate ==
  \E id \in { 1, 2 }, st \in { "returned", "lost" } :
    Handle(Request("update", Str(id), [NoBody EXCEPT !.status = st]))
RoutesDelete == Handle(Request("delete", Str(1), NoBody))

NextRoutes ==
  \/ InitDBConnected
  \/ InitDBFailed
  \/ RoutesCreate
  \/ RoutesUpdate
  \/ RoutesDelete
  \/ GetCars
  \/ GetRentals
  \/ GetHealth
  \/ GetMetrics

SpecRoutes == Init /\ [][NextRoutes]_vars

\* ---------------------------------------------------------------- the rental workflow
\* Requests of the workflow of src/tests/integration.test.js: rentals of the
\* three seeded cars from 2025-01-01, extended, returned or cancelled, listed
\* and counted.
WorkflowCreateBodies ==
  { [BaseBody EXCEPT !.car_id = c, !.end_date = e] :
      c \in { 1, 2, 3 }, e \in { <<2025, 1, 1>>, <<2025, 1, 3>>, <<2025, 1, 5>> } }

WorkflowUpdateBodies ==
  { [NoBody EXCEPT !.end_date = <<2025, 1, 5>>], [NoBody EXCEPT !.status = "returned"],
    [NoBody EXCEPT !.status = "cancelled"] }

WorkflowCreate == \E body \in WorkflowCreateBodies : Handle(Request("create", Str(0), body))
WorkflowUpdate ==
  \E id \in { 1, 2 }, body \in WorkflowUpdateBodies : Handle(Request("update", Str(id), body))

NextWorkflow ==
  \/ InitDBConnected
  \/ InitDBFailed
  \/ WorkflowCreate
  \/ WorkflowUpdate
  \/ GetRentals
  \/ GetMetrics

SpecWorkflow == Init /\ [][NextWorkflow]_vars

\* Creates and Lists with a clock that may or may not advance between two
\* requests: created_at has the resolution of the clock (a millisecond in the
\* in-memory branch, a second in a TIMESTAMP column).
NextTimed ==
  \/ InitDBConnected
  \/ InitDBFailed
  \/ Tick
  \/ WorkflowCreate
  \/ GetRentals

SpecTimed == Init /\ [][NextTimed]_vars

\* ---------------------------------------------------------------- the two backends side by side
\* One process on the in-memory arrays and one on the MySQL tables, both
\* seeded, are sent the same requests; last holds the answer of each.
InitBoth ==
  /\ phase = "both"
  /\ useInMemory = FALSE
  /\ inMemoryCars = SeedCars
  /\ inMemoryRentals = << >>
  /\ db = [cars |-> SeedCars, rentals |-> << >>, autoInc |-> 1, conn |-> TRUE]
  /\ metrics = [totalRentals |-> 0, activeRentals |-> 0, totalRevenue |-> 0, requestCount |-> 0]
  /\ now = 0
  /\ procs = [p \in ProcIds |-> Idle]
  /\ last = [mem |-> NoResponse, db |-> NoResponse]

\* A Create, an Update or a Delete is handled by both.
BothHandle(req) ==
  /\ phase = "both"
  /\ metrics.requestCount < MaxRequests
  /\ metrics' = Counted(metrics)
  /\ LET m == ServeMem(inMemoryCars, inMemoryRentals, req, now)
         d == RunDb(db, Begin(req), now)
     IN  /\ inMemoryCars' = m.cars
         /\ inMemoryRentals' = m.rentals
         /\ db' = d.db
         /\ last' = [mem |-> m.res, db |-> d.p.res]
  /\ UNCHANGED << phase, useInMemory, now, procs >>

\* A List is handled by both.
BothGetRentals ==
  /\ phase = "both"
  /\ metrics.requestCount < MaxRequests
  /\ metrics' = Counted(metrics)
  /\ \E rows \in SelectRentalsJoined(db) :
       last' = [mem |-> GetRentalsMem(inMemoryCars, inMemoryRentals),
                db |-> Response(200, [rows |-> rows])]
  /\ UNCHANGED << phase, useInMemory, inMemoryCars, inMemoryRentals, db, now, procs >>

\* A Snapshot is handled by both, each with its own metrics object.
BothGetMetrics ==
  /\ phase = "both"
  /\ metrics.requestCount < MaxRequests
  /\ LET counted == Counted(metrics)
         d == RunDb(db, Begin(Request("metrics", Str(0), NoBody)), now).p
     IN  /\ metrics' = counted
         /\ last' = [mem |-> Response(200, SnapshotBody(UpdateMetricsMem(counted, inMemoryRentals))),
                     db |-> Response(200, SnapshotBody(MetricsWritten(counted, d)))]
  /\ UNCHANGED << phase, useInMemory, inMemoryCars, inMemoryRentals, db, now, procs >>

BothPostRentals == \E body \in CreateBodies : BothHandle(Request("create", Str(0), body))
BothPutRentals ==
  \E id \in RentalIdInputs, body \in UpdateBodies : BothHandle(Request("update", Str(id), body))
BothDeleteRentals == \E id \in RentalIdInputs : BothHandle(Request("delete", Str(id), NoBody))

NextBoth ==
  \/ BothPostRentals
  \/ BothPutRentals
  \/ BothDeleteRentals
  \/ BothGetRentals
  \/ BothGetMetrics

SpecBoth == InitBoth /\ [][NextBoth]_vars

\* ---------------------------------------------------------------- daysInclusive alone
\* Arguments of daysInclusive: absent, text that is no date, month 13, day 32,
\* a day past the end of its month, and calendar dates around a leap day, a
\* year's end and the dates of src/tests/utils.test.js.
DayInputs ==
  { Missing, << 0 >>, <<2025, 13, 1>>, <<2025, 1, 32>>, <<2025, 2, 30>>,
    <<2024, 2, 28>>, <<2024, 2, 29>>, <<2024, 3, 1>>, <<2024, 12, 31>>,
    <<2025, 1, 1>>, <<2025, 3, 1>>, <<2025, 3, 2>>,
    <<2025, 12, 9>>, <<2025, 12, 11>>, <<2025, 12, 12>> }

\* A call of daysInclusive about to be made: the arguments are chosen.
InitDays ==
  /\ phase = "days"
  /\ useInMemory = TRUE
  /\ inMemoryCars = << >>
  /\ inMemoryRentals = << >>
  /\ db = [cars |-> << >>, rentals |-> << >>, autoInc |-> 1, conn |-> FALSE]
  /\ metrics = [totalRentals |-> 0, activeRentals |-> 0, totalRevenue |-> 0, requestCount |-> 0]
  /\ now = 0
  /\ procs = [p \in ProcIds |-> Idle]
  /\ \E s \in DayInputs, e \in DayInputs :
       last = [status |-> 0, body |-> [startDate |-> s, endDate |-> e, days |-> 0, called |-> FALSE]]

\* The call returns.
CallDaysInclusive ==
  /\ phase = "days"
  /\ ~last.body.called
  /\ last' = [last EXCEPT !.body.days = daysInclusive(last.body.startDate, last.body.endDate),
                        !.body.called = TRUE]
  /\ UNCHANGED << phase, useInMemory, inMemoryCars, inMemoryRentals, db, metrics, now, procs >>

SpecDays == InitDays /\ [][CallDaysInclusive]_vars

\* ---------------------------------------------------------------- concurrent requests
\* A request arrives: the middleware counts it and its handler runs up to its
\* first await (in-memory: to its return). Slots are taken in order.
Arrive(p, req) ==
  /\ phase = "up"
  /\ metrics.requestCount < MaxRequests
  /\ procs[p].pc = "idle"
  /\ \A q \in ProcIds : q < p => procs[q].pc # "idle"
  /\ metrics' = Counted(metrics)
  /\ IF useInMemory
     THEN LET r == ServeMem(inMemoryCars, inMemoryRentals, req, now)
          IN  /\ inMemoryCars' = r.cars
              /\ inMemoryRentals' = r.rentals
              /\ procs' = [procs EXCEPT ![p] = Done(Begin(req), r.res)]
              /\ last' = r.res
              /\ UNCHANGED db
     ELSE LET b == Begin(req)
          IN  /\ procs' = [procs EXCEPT ![p] = b]
              /\ last' = IF b.pc = "done" THEN b.res ELSE last
              /\ UNCHANGED << db, inMemoryCars, inMemoryRentals >>
  /\ UNCHANGED << phase, useInMemory, now >>

\* The statement a durable handler awaits is executed and the handler continues
\* up to its next await or its response.
Resume(p) ==
  /\ procs[p].pc \notin { "idle", "done" }
  /\ LET r == DbStep(db, procs[p], now)
     IN  /\ db' = r.db
         /\ procs' = [procs EXCEPT ![p] = r.p]
         /\ last' = IF r.p.pc = "done" THEN r.p.res ELSE last
  /\ UNCHANGED << phase, useInMemory, inMemoryCars, inMemoryRentals, metrics, now >>

\* The catch block of the handler of p: the fixed text of its route.
CatchBlock(p) ==
  Done(p, Error(500, CASE p.op = "create" -> "Failed to create rental"
                       [] p.op = "update" -> "Failed to update rental"
                       [] p.op = "delete" -> "Failed to delete rental"))

\* The statement a durable handler awaits fails (the backend is gone or
\* rejects it): db.execute throws and the handler's catch block answers.
Fail(p) ==
  /\ procs[p].pc \notin { "idle", "done" }
  /\ procs' = [procs EXCEPT ![p] = CatchBlock(procs[p])]
  /\ last' = CatchBlock(procs[p]).res
  /\ UNCHANGED << phase, useInMemory, inMemoryCars, inMemoryRentals, db, metrics, now >>

ConcurrentCreateBodies ==
  { [BaseBody EXCEPT !.car_id = c, !.end_date = e] :
      c \in { 1, 2, 999 }, e \in { <<2025, 1, 3>>, <<2025, 13, 1>> } }

ArriveCreate ==
  \E p \in ProcIds, body \in ConcurrentCreateBodies : Arrive(p, Request("create", Str(0), body))

ResumeHandler == \E p \in ProcIds : Resume(p)

NextCreate ==
  \/ InitDBConnected
  \/ InitDBFailed
  \/ ArriveCreate
  \/ ResumeHandler

\* Create requests only, their durable handlers interleaved at every await.
SpecCreate == Init /\ [][NextCreate]_vars

\* ---------------------------------------------------------------- concurrent updates
\* The server after startup and one Create: rental 1 of car 1 from 2025-01-01
\* to 2025-01-03 is ongoing and car 1 unavailable, on either backend.
RentedRental ==
  [id |-> 1, car_id |-> 1, renter_name |-> "Alice", start_date |-> <<2025, 1, 1>>,
   end_date |-> <<2025, 1, 3>>, total_cost |-> 10500, status |-> "ongoing",
   created_at |-> 0, updated_at |-> 0]

InitRented ==
  /\ phase = "up"
  /\ useInMemory \in BOOLEAN
  /\ inMemoryCars = IF useInMemory THEN SetAvailable(SeedCars, 1, 0) ELSE << >>
  /\ inMemoryRentals = IF useInMemory THEN << RentedRental >> ELSE << >>
  /\ db = IF useInMemory
          THEN [cars |-> << >>, rentals |-> << >>, autoInc |-> 1, conn |-> FALSE]
          ELSE [cars |-> SetAvailable(SeedCars, 1, 0), rentals |-> << RentedRental >>,
                autoInc |-> 2, conn |-> TRUE]
  /\ metrics = [totalRentals |-> 0, activeRentals |-> 0, totalRevenue |-> 0, requestCount |-> 1]
  /\ now = 0
  /\ procs = [p \in ProcIds |-> Idle]
  /\ last = NoResponse

ExtendRequest == Request("update", Str(1), [NoBody EXCEPT !.end_date = <<2025, 1, 5>>])
ReturnRequest == Request("update", Str(1), [NoBody EXCEPT !.status = "returned"])
CancelRequest == Request("update", Str(1), [NoBody EXCEPT !.status = "cancelled"])
ShortenRequest == Request("update", Str(1), [NoBody EXCEPT !.end_date = <<2025, 1, 1>>])

ArriveUpdate ==
  \E p \in ProcIds, req \in { ExtendRequest, ReturnRequest, CancelRequest, ShortenRequest } :
    Arrive(p, req)

NextUpdate ==
  \/ ArriveUpdate
  \/ ResumeHandler

SpecUpdate == InitRented /\ [][NextUpdate]_vars

\* ---------------------------------------------------------------- concurrent snapshots
SnapshotRequest == Request("metrics", Str(0), NoBody)

\* app.get('/metrics') up to the first await of updateMetrics; the in-memory
\* branch of updateMetrics awaits nothing, so the snapshot is answered at once.
ArriveSnapshot(p) ==
  /\ phase = "up"
  /\ metrics.requestCount < MaxRequests
  /\ procs[p].pc = "idle"
  /\ \A q \in ProcIds : q < p => procs[q].pc # "idle"
  /\ IF useInMemory
     THEN LET updated == UpdateMetricsMem(Counted(metrics), inMemoryRentals)
          IN  /\ metrics' = updated
              /\ procs' = [procs EXCEPT
                             ![p] = Done(Begin(SnapshotRequest), Response(200, SnapshotBody(updated)))]
              /\ last' = Response(200, SnapshotBody(updated))
     ELSE /\ metrics' = Counted(metrics)
          /\ procs' = [procs EXCEPT ![p] = Begin(SnapshotRequest)]
          /\ last' = last
  /\ UNCHANGED << phase, useInMemory, inMemoryCars, inMemoryRentals, db, now >>

\* One of the three queries of updateMetrics is answered. After the third the
\* shared metrics object is written and the snapshot built from it, with no
\* await in between.
ResumeSnapshot(p) ==
  /\ procs[p].op = "metrics"
  /\ procs[p].pc \notin { "idle", "done" }
  /\ LET r == DbStep(db, procs[p], now)
         written == MetricsWritten(metrics, r.p)
     IN  IF r.p.pc = "done"
         THEN /\ metrics' = written
              /\ procs' = [procs EXCEPT ![p] = Done(r.p, Response(200, SnapshotBody(written)))]
              /\ last' = Response(200, SnapshotBody(written))
         ELSE /\ procs' = [procs EXCEPT ![p] = r.p]
              /\ UNCHANGED << metrics, last >>
  /\ UNCHANGED << phase, useInMemory, inMemoryCars, inMemoryRentals, db, now >>

SnapshotWrites ==
  { Request("create", Str(0), [BaseBody EXCEPT !.car_id = 2]), ReturnRequest,
    Request("delete", Str(1), NoBody) }

ArriveWrite == \E p \in ProcIds, req \in SnapshotWrites : Arrive(p, req)
ResumeWrite == \E p \in ProcIds : procs[p].op # "metrics" /\ Resume(p)
ArriveSnapshots == \E p \in ProcIds : ArriveSnapshot(p)
ResumeSnapshots == \E p \in ProcIds : ResumeSnapshot(p)

NextSnapshot ==
  \/ ArriveWrite
  \/ ResumeWrite
  \/ ArriveSnapshots
  \/ ResumeSnapshots

\* Snapshots taken while Create, Update and Delete handlers run.
SpecSnapshot == InitRented /\ [][NextSnapshot]_vars

\* ---------------------------------------------------------------- backend failures
\* Requests whose awaited statements may fail.
FaultRequests ==
  { Request("create", Str(0), [BaseBody EXCEPT !.car_id = c]) : c \in { 1, 2 } }
    \cup { Request("update", Str(1), [NoBody EXCEPT !.status = st]) : st \in { "returned", "cancelled" } }
    \cup { Request("delete", Str(1), NoBody) }

ArriveRequest == \E p \in ProcIds, req \in FaultRequests : Arrive(p, req)
FailHandler == \E p \in ProcIds : Fail(p)

NextFault ==
  \/ InitDBConnected
  \/ InitDBFailed
  \/ ArriveRequest
  \/ ResumeHandler
  \/ FailHandler

SpecFault == Init /\ [][NextFault]_vars

\* ---------------------------------------------------------------- the store in use
Cars == IF useInMemory THEN inMemoryCars ELSE db.cars
Rentals == IF useInMemory THEN inMemoryRentals ELSE db.rentals

CarOf(cars, id) == cars[FindIndex(cars, id)]
OngoingOf(rentals, c) == { i \in 1 .. Len(rentals) : rentals[i].car_id = c /\ rentals[i].status = "ongoing" }
CarIdsOf(cars) == { cars[i].id : i \in 1 .. Len(cars) }
Availability(cars) == [i \in 1 .. Len(cars) |-> cars[i].available]

\* ---------------------------------------------------------------- claims

\* C1: of two Create requests for the same car whose handlers are interleaved at
\* their awaits, at most one is answered 201.
C1_AtMostOneCreateSucceeds ==
  \A p, q \in ProcIds :
    (/\ p # q
     /\ procs[p].op = "create" /\ procs[q].op = "create"
     /\ procs[p].body.car_id = procs[q].body.car_id
     /\ procs[p].res.status = 201)
    => procs[q].res.status # 201

\* C2: a car that a stored ongoing rental references has available = 0.
C2_OngoingImpliesUnavailable ==
  \A i \in 1 .. Len(Rentals) :
    Rentals[i].status = "ongoing" => CarOf(Cars, Rentals[i].car_id).available = 0

\* C3: a car with available = 0 is referenced by a stored ongoing rental.
C3_UnavailableImpliesOngoing ==
  \A c \in CarIdsOf(Cars) :
    CarOf(Cars, c).available = 0 => OngoingOf(Rentals, c) # {}

\* C3 (amended): every seeded car starts available, and a car's flag goes from 1
\* to 0 only in a Create answered 201 that stores a new ongoing rental of that car.
C3_UnavailableOnlyByCreate ==
  [][ \A c \in CarIdsOf(Cars) :
        (CarOf(Cars, c).available = 1 /\ CarOf(Cars', c).available = 0)
        => /\ last'.status = 201
           /\ Len(Rentals') = Len(Rentals) + 1
           /\ Rentals'[Len(Rentals')].car_id = c
           /\ Rentals'[Len(Rentals')].status = "ongoing" ]_vars

\* C3 witness: a car is unavailable and no stored rental references it.
C3_Witness ==
  \E c \in CarIdsOf(Cars) :
    /\ CarOf(Cars, c).available = 0
    /\ \A i \in 1 .. Len(Rentals) : Rentals[i].car_id # c

\* C4: each car is referenced by at most one stored ongoing rental.
C4_AtMostOneOngoing ==
  \A c \in CarIdsOf(Cars) : Cardinality(OngoingOf(Rentals, c)) <= 1

\* C5: a stored rental whose status is 'returned' or 'cancelled' keeps it through
\* every request, and every stored status is one of the three.
C5_TerminalStatusKept ==
  /\ [](\A i \in 1 .. Len(Rentals) : Rentals[i].status \in StatusEnum)
  /\ [][ \A i \in 1 .. Len(Rentals) :
          (/\ Len(Rentals') = Len(Rentals)
           /\ Rentals'[i].id = Rentals[i].id
           /\ Rentals[i].status \in { "returned", "cancelled" })
          => Rentals'[i].status = Rentals[i].status ]_vars

C7_UnavailableCarRejected ==
  [][ \A body \in CompleteBodies :
        (/\ metrics' # metrics
         /\ body.car_id \in CarIdsOf(Cars)
         /\ CarOf(Cars, body.car_id).available = 0
         /\ Handle(Request("create", Str(0), body)))
        => /\ last' = Error(400, "Car is not available for rental")
           /\ Rentals' = Rentals
           /\ Cars' = Cars ]_vars

\* C7 witness: a Create has just been refused for an unavailable car.
C7_Witness ==
  /\ last = Error(400, "Car is not available for rental")
  /\ \E c \in CarIdsOf(Cars) : CarOf(Cars, c).available = 0

\* C8: a Create answered 201 appends exactly one ongoing rental of the requested
\* car, sets that car's flag to 0, changes nothing else, and its response carries
\* the rental's total_cost and the status 'ongoing'.
C8_CreateEffect ==
  [][ \A body \in CreateBodies :
        (last'.status = 201 /\ Handle(Request("create", Str(0), body)))
        => /\ Len(Rentals') = Len(Rentals) + 1
           /\ SubSeq(Rentals', 1, Len(Rentals)) = Rentals
           /\ Rentals'[Len(Rentals')].car_id = body.car_id
           /\ Rentals'[Len(Rentals')].status = "ongoing"
           /\ Cars' = SetAvailable(Cars, body.car_id, 0)
           /\ last'.body.id = Rentals'[Len(Rentals')].id
           /\ last'.body.total_cost = Rentals'[Len(Rentals')].total_cost
           /\ "status" \in DOMAIN last'.body
           /\ last'.body.status = "ongoing" ]_vars

\* C9: an Update answered 200 that sets 'returned' leaves the rental's car with
\* available = 1; one that sets 'cancelled' leaves every car's flag as it was.
C9_ReturnReleasesCancelKeeps ==
  [][ \A id \in RentalIdInputs, body \in UpdateBodies :
        (/\ last'.status = 200
         /\ body.status \in { "returned", "cancelled" }
         /\ Handle(Request("update", Str(id), body)))
        => /\ body.status = "returned"
                => CarOf(Cars', Rentals[FindIndex(Rentals, id)].car_id).available = 1
           /\ body.status = "cancelled" => Availability(Cars') = Availability(Cars) ]_vars

\* C9 witness: a rental has just been returned and its car is available again.
C9_Witness ==
  /\ last.status = 200
  /\ "status" \in DOMAIN last.body
  /\ last.body.status = "returned"
  /\ \E i \in 1 .. Len(Rentals) :
       /\ Rentals[i].status = "returned"
       /\ CarOf(Cars, Rentals[i].car_id).available = 1

\* The rows of a table without the rows of one id.
RECURSIVE Without(_, _)
Without(rows, id) ==
  IF rows = << >> THEN << >>
  ELSE IF Head(rows).id = id THEN Without(Tail(rows), id)
  ELSE << Head(rows) >> \o Without(Tail(rows), id)

\* C10: a Delete changes no car's flag; answered 200 it removes exactly the
\* rental of the given id, otherwise it removes nothing.
C10_DeleteEffect ==
  [][ \A id \in RentalIdInputs :
        (metrics' # metrics /\ Handle(Request("delete", Str(id), NoBody)))
        => /\ Cars' = Cars
           /\ last'.status = 200
                => /\ Rentals' = Without(Rentals, id)
                   /\ Len(Rentals') = Len(Rentals) - 1
           /\ last'.status # 200 => Rentals' = Rentals ]_vars

\* C10 witness: an ongoing rental has just been deleted; its car is still
\* unavailable and another rental is still stored.
C10_Witness ==
  /\ last.status = 200
  /\ last.body \in { [message |-> "Rental deleted"], [message |-> "Rental deleted (in-memory)"] }
  /\ Len(Rentals) > 0
  /\ \E c \in CarIdsOf(Cars) :
       /\ CarOf(Cars, c).available = 0
       /\ \A i \in 1 .. Len(Rentals) : Rentals[i].car_id # c

\* C11: the revenue.total of every Snapshot is the sum of total_cost over the
\* stored rentals that are ongoing or returned.
C11_RevenueExcludesCancelled ==
  [][ GetMetrics =>
        last'.body.revenue.total = SumCost(Rentals, { "ongoing", "returned" }) ]_vars

\* C18: in every Snapshot rentals.total is the number of stored rentals,
\* rentals.active the number of ongoing ones, and total = active + completed.
C18_SnapshotCounts ==
  [][ GetMetrics =>
        /\ last'.body.rentals.total = Len(Rentals)
        /\ last'.body.rentals.active = Cardinality(UNION { OngoingOf(Rentals, c) : c \in CarIdsOf(Cars) })
        /\ last'.body.rentals.total
             = last'.body.rentals.active + last'.body.rentals.completed ]_vars

\* C18 witness: a Snapshot has just reported stored rentals of which some are
\* ongoing and some are not.
C18_Witness ==
  /\ "rentals" \in DOMAIN last.body
  /\ last.body.rentals.total = Len(Rentals)
  /\ last.body.rentals.active >= 1
  /\ last.body.rentals.completed >= 1

\* The calendar, written without the day numbers of MakeDay.
IsLeap(y) == (y % 4 = 0 /\ y % 100 # 0) \/ y % 400 = 0
DaysInMonth(y, m) ==
  IF m = 2 THEN (IF IsLeap(y) THEN 29 ELSE 28)
  ELSE IF m \in {4, 6, 9, 11} THEN 30 ELSE 31
NextDay(d) ==
  IF d[3] < DaysInMonth(d[1], d[2]) THEN << d[1], d[2], d[3] + 1 >>
  ELSE IF d[2] < 12 THEN << d[1], d[2] + 1, 1 >>
  ELSE << d[1] + 1, 1, 1 >>
\* Text of the shape YYYY-MM-DD that the Date parser accepts.
Parses(s) == Len(s) = 3 /\ s[1] \in 1970 .. 2100 /\ s[2] \in 1 .. 12 /\ s[3] \in 1 .. 31
IsCalendarDate(s) == Parses(s) /\ s[3] <= DaysInMonth(s[1], s[2])
\* The calendar date a parsed text denotes: a day past the month's end is
\* counted on into the next month.
RECURSIVE DateOf(_)
DateOf(s) ==
  IF IsCalendarDate(s) THEN s
  ELSE NextDay(DateOf(<< s[1], s[2], s[3] - 1 >>))
Before(a, b) ==
  \/ a[1] < b[1]
  \/ a[1] = b[1] /\ a[2] < b[2]
  \/ a[1] = b[1] /\ a[2] = b[2] /\ a[3] < b[3]
\* Number of days from calendar date a to calendar date b, a not after b,
\* counted month by month.
RECURSIVE DaysFromTo(_, _)
DaysFromTo(a, b) ==
  IF a[1] = b[1] /\ a[2] = b[2] THEN b[3] - a[3]
  ELSE (DaysInMonth(a[1], a[2]) - a[3] + 1)
       + DaysFromTo(IF a[2] < 12 THEN << a[1], a[2] + 1, 1 >> ELSE << a[1] + 1, 1, 1 >>, b)

Called == phase = "days" /\ last.body.called

\* C16: daysInclusive(start, end) is 0 exactly when start or end does not
\* parse to a date or the date of end is strictly before the date of start.
C16_ZeroIffInvalidOrReversed ==
  Called =>
    LET s == last.body.startDate
        e == last.body.endDate
    IN  (last.body.days = 0)
          <=> (~Parses(s) \/ ~Parses(e) \/ Before(DateOf(e), DateOf(s)))

\* C16 witness: calls that returned 0 for an unparsable argument and for a
\* reversed range are both among the calls (one state each); this one is the
\* reversed range of two calendar dates.
C16_Witness ==
  /\ Called
  /\ last.body.startDate = <<2025, 12, 12>>
  /\ last.body.endDate = <<2025, 12, 11>>
  /\ last.body.days = 0

\* C17: for calendar dates start <= end, daysInclusive is the number of days
\* from start to end plus 1: 1 when they are equal, 3 for 2025-12-09 to
\* 2025-12-11, never less than 1.
C17_DaysPlusOne ==
  Called =>
    LET s == last.body.startDate
        e == last.body.endDate
    IN  (IsCalendarDate(s) /\ IsCalendarDate(e) /\ ~Before(e, s)) =>
          /\ last.body.days = DaysFromTo(s, e) + 1
          /\ last.body.days >= 1
          /\ (s = e => last.body.days = 1)
          /\ (s = <<2025, 12, 9>> /\ e = <<2025, 12, 11>> => last.body.days = 3)

\* C17 witness: a range across the leap day of 2024 has been counted.
C17_Witness ==
  /\ Called
  /\ last.body.startDate = <<2024, 2, 28>>
  /\ last.body.endDate = <<2024, 3, 1>>
  /\ last.body.days = 3

\* The result fields of an answer or of a listed row, where it has them; a
\* date is read as its calendar day. The id is compared apart: the durable
\* Update answers with the id as the text of the URL, read here as a number.
ResultFields == { "id", "status", "end_date", "total_cost", "rentals", "revenue" }
SameFields(a, b) ==
  /\ \A f \in ResultFields : (f \in DOMAIN a) <=> (f \in DOMAIN b)
  /\ \A f \in ResultFields \ { "id", "end_date" } : f \in DOMAIN a => a[f] = b[f]
  /\ "end_date" \in DOMAIN a => SubSeq(a.end_date, 1, 3) = SubSeq(b.end_date, 1, 3)
SameId(status, a, b) ==
  "id" \in DOMAIN a => a.id = (IF status = 200 THEN Number(b.id) ELSE b.id)
SameRows(a, b) ==
  /\ ("rows" \in DOMAIN a) <=> ("rows" \in DOMAIN b)
  /\ "rows" \in DOMAIN a =>
       /\ Len(a.rows) = Len(b.rows)
       /\ \A i \in 1 .. Len(a.rows) :
            SameFields(a.rows[i], b.rows[i]) /\ a.rows[i].id = b.rows[i].id

\* C12: the same requests sent to an in-memory and to a durable backend, both
\* seeded, are answered with the same status code and the same result fields,
\* and leave the same car availability and the same rental records.
C12_BackendsEquivalent ==
  phase = "both" =>
    /\ last.mem.status = last.db.status
    /\ SameFields(last.mem.body, last.db.body)
    /\ SameId(last.db.status, last.mem.body, last.db.body)
    /\ SameRows(last.mem.body, last.db.body)
    /\ Availability(inMemoryCars) = Availability(db.cars)
    /\ inMemoryRentals = db.rentals

\* C13: useInMemory becomes true only in initDB and only if no connection
\* could be established; once the server listens it never changes, the
\* connection is not replaced, and a failed store operation is answered 500.
C13_BackendChosenOnce ==
  [][ /\ (useInMemory' /\ ~useInMemory) => (phase = "boot" /\ ~db'.conn)
      /\ phase = "up" => (useInMemory' = useInMemory /\ db'.conn = db.conn)
      /\ \A p \in ProcIds : Fail(p) => last'.status = 500 ]_vars

\* The requests of the end-to-end scenario, for rental 1 of car 1.
ScenarioCreate == Request("create", Str(0), BaseBody)
ScenarioExtend == Request("update", Str(1), [NoBody EXCEPT !.end_date = <<2025, 1, 5>>])
ScenarioReturn == Request("update", Str(1), [NoBody EXCEPT !.status = "returned"])
Seeded ==
  /\ phase = "up"
  /\ Rentals = << >>
  /\ Len(Cars) = 3
  /\ \A i \in 1 .. 3 : Cars[i].available = 1
  /\ << Cars[1].daily_rate, Cars[2].daily_rate, Cars[3].daily_rate >> = << 3500, 3750, 3000 >>
\* The one stored rental is rental 1 of car 1 from 2025-01-01 to the day given.
OnlyRental(status, endDay, cost) ==
  /\ phase = "up"
  /\ Len(Rentals) = 1
  /\ Rentals[1].id = 1 /\ Rentals[1].car_id = 1
  /\ Rentals[1].status = status
  /\ Rentals[1].start_date = <<2025, 1, 1>>
  /\ Rentals[1].end_date = <<2025, 1, endDay>>
  /\ Rentals[1].total_cost = cost

\* C14: from the seeded state, Create(car 1, 2025-01-01..2025-01-03) answers
\* 201 with total_cost 105.00 and status 'ongoing' and leaves car 1
\* unavailable; Update(end_date 2025-01-05) then answers total_cost 175.00;
\* Update(status returned) then leaves car 1 available; a Snapshot then
\* reports total 1, active 0, completed 1 and revenue 175.00.
C14_EndToEnd ==
  [][ /\ (Seeded /\ Handle(ScenarioCreate)) =>
           /\ last'.status = 201
           /\ last'.body.total_cost = 10500
           /\ "status" \in DOMAIN last'.body
           /\ last'.body.status = "ongoing"
           /\ OnlyRental("ongoing", 3, 10500)'
           /\ CarOf(Cars, 1)'.available = 0
      /\ (OnlyRental("ongoing", 3, 10500) /\ Handle(ScenarioExtend)) =>
           /\ last'.status = 200
           /\ last'.body.total_cost = 17500
           /\ OnlyRental("ongoing", 5, 17500)'
      /\ (OnlyRental("ongoing", 5, 17500) /\ Handle(ScenarioReturn)) =>
           /\ last'.status = 200
           /\ OnlyRental("returned", 5, 17500)'
           /\ CarOf(Cars, 1)'.available = 1
      /\ (OnlyRental("returned", 5, 17500) /\ GetMetrics) =>
           /\ last'.body.rentals = [total |-> 1, active |-> 0, completed |-> 1]
           /\ last'.body.revenue.total = 17500 ]_vars

\* C15: every Create answered 201 returns as total_cost the daily_rate of its
\* car times the number of days of its range, both ends counted; 35.00 over
\* 3 days is 105.00 and 37.50 over 5 days is 187.50.
C15_CostIsRateTimesDays ==
  [][ \A body \in WorkflowCreateBodies :
        (last'.status = 201 /\ Handle(Request("create", Str(0), body))) =>
          /\ last'.body.total_cost
               = CarOf(Cars, body.car_id).daily_rate
                   * (DaysFromTo(body.start_date, body.end_date) + 1)
          /\ (body.car_id = 1 /\ body.end_date = <<2025, 1, 3>>
                => last'.body.total_cost = 10500)
          /\ (body.car_id = 2 /\ body.end_date = <<2025, 1, 5>>
                => last'.body.total_cost = 18750) ]_vars

\* C15 witness: car 2 has just been rented for the five days from
\* 2025-01-01 to 2025-01-05 at 187.50.
C15_Witness ==
  /\ last.status = 201
  /\ last.body.car_id = 2
  /\ last.body.end_date = <<2025, 1, 5>>
  /\ last.body.total_cost = 18750

\* The calendar day of a date text or of a Date object.
DayOf(v) == << v[1], v[2], v[3] >>

\* C20: a List right after a Create answered 201 has exactly one row with the
\* new id, and the row has the renter_name, dates and total_cost of the Create,
\* the status of the new rental and the make, model, year and daily_rate of
\* the car of its car_id.
C20_ListAfterCreate ==
  [][ (last.status = 201 /\ GetRentals) =>
        LET rows == last'.body.rows
            new == { i \in 1 .. Len(rows) : rows[i].id = last.body.id }
            car == CarOf(Cars, last.body.car_id)
        IN  /\ Cardinality(new) = 1
            /\ \A i \in new :
                 /\ rows[i].car_id = last.body.car_id
                 /\ rows[i].renter_name = last.body.renter_name
                 /\ DayOf(rows[i].start_date) = DayOf(last.body.start_date)
                 /\ DayOf(rows[i].end_date) = DayOf(last.body.end_date)
                 /\ rows[i].total_cost = last.body.total_cost
                 /\ rows[i].status = "ongoing"
                 /\ rows[i].make = car.make /\ rows[i].model = car.model
                 /\ rows[i].year = car.year /\ rows[i].daily_rate = car.daily_rate ]_vars

\* C20 witness: a List that follows two Creates answered 201 (every earlier
\* request stored a rental) and shows the rental of car 2 with the Honda.
C20_Witness ==
  /\ "rows" \in DOMAIN last.body
  /\ Len(last.body.rows) = 2
  /\ metrics.requestCount = 3
  /\ \E i \in 1 .. 2 : last.body.rows[i].car_id = 2 /\ last.body.rows[i].make = "Honda"

\* C19: a List returns every stored rental, and of two stored rentals the one
\* created by the later Create (the one stored later, with the greater id)
\* comes first, also when both have the same created_at.
C19_NewestFirst ==
  [][ GetRentals =>
        LET rows == last'.body.rows
        IN  /\ Len(rows) = Len(Rentals)
            /\ { rows[i].id : i \in 1 .. Len(rows) }
                 = { Rentals[i].id : i \in 1 .. Len(Rentals) }
            /\ \A i, j \in 1 .. Len(rows) : i < j => rows[i].id > rows[j].id ]_vars

\* What the handler of req, run to its answer on the present stores of the
\* backend in use, leaves and answers (what Handle(req) assigns).
Served(req) ==
  IF useInMemory
  THEN ServeMem(inMemoryCars, inMemoryRentals, req, now)
  ELSE LET r == RunDb(db, Begin(req), now)
       IN  [cars |-> r.db.cars, rentals |-> r.db.rentals, res |-> r.p.res]

\* The answer the order of precedence of Create gives to a body, read off the
\* stored cars with the calendar dates of the body.
CreateVerdict(body) ==
  IF body.car_id = 0 \/ body.renter_name = "" \/ body.start_date = Missing
       \/ body.end_date = Missing
  THEN Error(400, "car_id, renter_name, start_date and end_date are required")
  ELSE IF body.car_id \notin CarIdsOf(Cars) THEN Error(404, "Car not found")
  ELSE IF CarOf(Cars, body.car_id).available = 0
    THEN Error(400, "Car is not available for rental")
  ELSE IF \/ ~Parses(body.start_date) \/ ~Parses(body.end_date)
          \/ Before(DateOf(body.end_date), DateOf(body.start_date))
    THEN Error(400, "Invalid dates")
  ELSE Response(201, [error |-> ""])

\* C21: in every state the server reaches, a Create fails with the first of: 400 'required' for a missing field,
\* 404 for an unknown car, 400 for an unavailable car, 400 'Invalid dates' for
\* a range of no days; and a Create that fails leaves cars and rentals as
\* they were.
C21_CreateFailsInOrder ==
  phase = "up" =>
    \A body \in CreateBodies :
      LET r == Served(Request("create", Str(0), body))
      IN  /\ r.res.status = CreateVerdict(body).status
          /\ r.res.status # 201 =>
               /\ r.res = CreateVerdict(body)
               /\ r.cars = Cars
               /\ r.rentals = Rentals

\* C21 witness: a Create has been refused for its dates, one for an unknown
\* car being refused elsewhere; here a car is rented and a Create is answered
\* 'Invalid dates'.
C21_Witness ==
  /\ last = Error(400, "Invalid dates")
  /\ Len(Rentals) >= 1

StoredIds == { Rentals[i].id : i \in 1 .. Len(Rentals) }
RentalOf(id) == Rentals[FindIndex(Rentals, id)]
\* An end_date that gives the stored rental of the id a range of no days.
NoDays(id, endDate) ==
  /\ endDate # Missing
  /\ ~Parses(endDate) \/ Before(DateOf(endDate), DayOf(RentalOf(id).start_date))

\* C22: in every state the server reaches, an Update of a stored rental with
\* an end_date that gives it no days is answered 400 and leaves every rental
\* (end_date, total_cost, status, updated_at) and every car as it was, whatever
\* status the request carries.
C22_BadEndDateChangesNothing ==
  phase = "up" =>
    \A id \in RentalIdInputs \cap StoredIds, body \in UpdateBodies :
      NoDays(id, body.end_date) =>
        LET r == Served(Request("update", Str(id), body))
        IN  /\ r.res = Error(400, "Invalid end_date")
            /\ r.rentals = Rentals
            /\ r.cars = Cars

\* C22 witness: an Update has been answered 'Invalid end_date' while the
\* stored rental is still ongoing and its car unavailable.
C22_Witness ==
  /\ last = Error(400, "Invalid end_date")
  /\ \E i \in 1 .. Len(Rentals) :
       Rentals[i].status = "ongoing" /\ CarOf(Cars, Rentals[i].car_id).available = 0

NotFound == Error(404, "Rental not found")
\* An Update or a Delete of an id that no stored rental has is answered 404
\* and leaves rentals and cars as they were.
UnknownIdRefused ==
  phase = "up" =>
    \A id \in RentalIdInputs \ StoredIds :
      /\ \A body \in UpdateBodies :
           LET r == Served(Request("update", Str(id), body))
           IN  r.res = NotFound /\ r.rentals = Rentals /\ r.cars = Cars
      /\ LET r == Served(Request("delete", Str(id), NoBody))
         IN  r.res = NotFound /\ r.rentals = Rentals /\ r.cars = Cars
\* A Delete answered 200 leaves no rental of its id, so that the same Delete
\* sent again is answered 404.
DeletedIdUnknown ==
  \A id \in RentalIdInputs :
    (last'.status = 200 /\ Handle(Request("delete", Str(id), NoBody))) =>
      /\ id \notin StoredIds'
      /\ Served(Request("delete", Str(id), NoBody))'.res = NotFound

\* C23: an Update or a Delete whose id matches no stored rental (never
\* created, or deleted) is answered 404 and changes no rental and no car; a
\* second Delete of the same id is answered 404.
C23_UnknownIdIs404 == [] UnknownIdRefused /\ [][DeletedIdUnknown]_vars

\* C23 witness: a rental has been created and deleted (its car is still
\* unavailable and no rental is stored), and a request since then has been
\* answered 404.
C23_Witness ==
  /\ last = NotFound
  /\ Rentals = << >>
  /\ \E i \in 1 .. Len(Cars) : Cars[i].available = 0

\* C24: a car that is unavailable (as the car of a cancelled or deleted rental
\* stays) becomes available only in an Update answered 200 that sets the
\* status of a stored rental of that car to 'returned'; no Create, no Delete
\* and no other Update makes it available.
C24_OnlyReturnReleases ==
  [][ \A c \in CarIdsOf(Cars) :
        (CarOf(Cars, c).available = 0 /\ CarOf(Cars, c)'.available = 1) =>
          \E id \in RentalIdInputs \cap StoredIds, body \in UpdateBodies :
            /\ body.status = "returned"
            /\ RentalOf(id).car_id = c
            /\ last'.status = 200
            /\ RentalOf(id)'.status = "returned"
            /\ Handle(Request("update", Str(id), body)) ]_vars

\* C24 witness: rental 1 was cancelled, a later Create has rented another
\* car, and the car of rental 1 is still unavailable.
C24_Witness ==
  /\ last.status = 201
  /\ Len(Rentals) = 2
  /\ Rentals[1].status = "cancelled"
  /\ CarOf(Cars, Rentals[1].car_id).available = 0

\* C25: requests.total never decreases; every request that reaches a route,
\* whatever its answer, raises it by exactly one; and a Snapshot reports the
\* count with its own request in it.
C25_RequestsCounted ==
  [][ /\ metrics'.requestCount >= metrics.requestCount
      /\ phase = "up" => metrics'.requestCount = metrics.requestCount + 1
      /\ GetMetrics => last'.body.requests.total = metrics.requestCount + 1 ]_vars

\* C25 witness: the fourth request was answered 500 and four are counted.
C25_Witness ==
  /\ last.status = 500
  /\ metrics.requestCount = 4

\* C26: a Create answered 201 gives its rental an id that no stored rental has
\* and that no rental deleted before had: after a Delete of id k answered 200,
\* no Create gives the id k to its new rental.
C26_IdsNeverReused ==
  [][ \A k \in RentalIdInputs :
        (last'.status = 200 /\ Handle(Request("delete", Str(k), NoBody))) =>
          \A body \in CreateBodies :
            LET r == Served(Request("create", Str(0), body))'
            IN  r.res.status = 201 =>
                  /\ r.res.body.id \notin StoredIds'
                  /\ r.res.body.id # k ]_vars

\* Two handlers have answered 200, one to the request a and one to b.
BothAnswered(a, b) ==
  \E p, q \in ProcIds :
    /\ p # q
    /\ procs[p].pc = "done" /\ procs[p].res.status = 200
    /\ procs[q].pc = "done" /\ procs[q].res.status = 200
    /\ procs[p].body = a.body /\ procs[p].id = a.id
    /\ procs[q].body = b.body /\ procs[q].id = b.id

\* C27: when an Update with only end_date 2025-01-05 and an Update with only
\* status 'returned' of rental 1 have both been answered 200, however their
\* handlers were interleaved, the rental has end_date 2025-01-05, the total
\* of five days and status 'returned', and its car is available only if the
\* status is 'returned'.
C27_BothUpdatesTakeEffect ==
  BothAnswered(ExtendRequest, ReturnRequest) =>
    /\ RentalOf(1).end_date = <<2025, 1, 5>>
    /\ RentalOf(1).total_cost = 17500
    /\ RentalOf(1).status = "returned"
    /\ CarOf(Cars, 1).available = 1 => RentalOf(1).status = "returned"

\* C28: every Snapshot that has been answered, whatever ran between its
\* queries, reports rentals.active at most rentals.total and rentals.completed
\* not negative.
C28_ActiveWithinTotal ==
  \A p \in ProcIds :
    (procs[p].op = "metrics" /\ procs[p].pc = "done") =>
      /\ procs[p].res.body.rentals.active <= procs[p].res.body.rentals.total
      /\ procs[p].res.body.rentals.completed >= 0

\* A stored ongoing rental whose car is available.
OngoingOfAvailableCar(cars, rentals) ==
  \E i \in 1 .. Len(rentals) :
    /\ rentals[i].status = "ongoing"
    /\ \E j \in 1 .. Len(cars) : cars[j].id = rentals[i].car_id /\ cars[j].available = 1

\* C29: when a durable Create ends with 500 because the statement it awaits
\* fails, whichever statement that is, the rental it was creating is not
\* stored and no stored ongoing rental has an available car.
C29_FailedCreateLeavesStore ==
  [][ \A p \in ProcIds :
        (procs[p].op = "create" /\ Fail(p)) =>
          /\ last' = Error(500, "Failed to create rental")
          /\ procs[p].pc = "markUnavailable" => FindIndex(db'.rentals, procs[p].insertId) = 0
          /\ ~OngoingOfAvailableCar(db'.cars, db'.rentals) ]_vars

\* C30: an Update of a stored rental that is answered 200 leaves the rental's
\* id, car_id, renter_name and start_date, every other rental and every car's
\* daily_rate as they were; if it names no end_date, the rental's end_date and
\* total_cost too; if it names no status, the rental's status and every car's
\* availability too.
C30_UpdateChangesOnlyNamed ==
  phase = "up" =>
    \A id \in RentalIdInputs \cap StoredIds, body \in UpdateBodies :
      LET r == Served(Request("update", Str(id), body))
          i == FindIndex(Rentals, id)
          old == Rentals[i]
          new == r.rentals[i]
      IN  r.res.status = 200 =>
            /\ Len(r.rentals) = Len(Rentals)
            /\ \A j \in 1 .. Len(Rentals) : j # i => r.rentals[j] = Rentals[j]
            /\ new.id = old.id /\ new.car_id = old.car_id
            /\ new.renter_name = old.renter_name /\ new.start_date = old.start_date
            /\ Len(r.cars) = Len(Cars)
            /\ \A c \in 1 .. Len(Cars) :
                 r.cars[c].id = Cars[c].id /\ r.cars[c].daily_rate = Cars[c].daily_rate
            /\ body.end_date = Missing =>
                 (new.end_date = old.end_date /\ new.total_cost = old.total_cost)
            /\ body.status = "" =>
                 (new.status = old.status /\ Availability(r.cars) = Availability(Cars))

\* C30 witness: with two rentals stored, an Update has been answered 200 with
\* status 'returned'; the returned rental keeps the total the answer reports
\* and the other rental is still ongoing.
C30_Witness ==
  /\ last.status = 200
  /\ "total_cost" \in DOMAIN last.body
  /\ last.body.status = "returned"
  /\ Len(Rentals) = 2
  /\ \E i, j \in 1 .. 2 :
       /\ Rentals[i].status = "returned" /\ Rentals[i].total_cost = last.body.total_cost
       /\ CarOf(Cars, Rentals[i].car_id).available = 1
       /\ Rentals[j].status = "ongoing"

====
